---- MODULE Spec2Model ----
(***************************************************************************)
(* A model of the stack-sparrow review pipeline: plan_code_review turns    *)
(* the files of a diff source into review units, execute_code_review packs *)
(* the units into chunks, submits one backend run per chunk, polls it with *)
(* wait_for_run_completion and collects the tool calls of each finished    *)
(* run with _deserialize_review_response.                                  *)
(*                                                                         *)
(* Python's None is a string "None" (or a record of the same shape as the  *)
(* value it stands for), a str message is a tuple (<<>> is ""), a file     *)
(* path is the position of the file in the diff source.                    *)
(***************************************************************************)
EXTENDS Integers, Sequences, FiniteSets, TLC

VARIABLES
    pc,            \* position of the cmd_review control flow
    cur,           \* the tuple diff_by_file yielded last, with the file's state on disk
    plan,          \* the ReviewPlan under construction / under review
    review_chunks, \* execute_code_review: the chunks (lists of messages)
    idx,           \* execute_code_review: number of chunks already processed
    run,           \* wait_for_run_completion: the run as last created / retrieved
    attempts,      \* wait_for_run_completion: iterations of the polling loop done
    chunk_result,  \* execute_code_review: what wait_for_run_completion returned last
    results,       \* execute_code_review: the accumulated FileReviewResults
    threads,       \* backend: the message list of every thread created, in order
    chunk_log,     \* history: per processed chunk, how its job ended and what it gave
    exc,           \* the exception that propagated out of the program, if any
    cfg,           \* AppConfig.instance(): model_name and assistant_id
    yes,           \* cmd_review: the --yes option
    confirmed,     \* cmd_review: what typer.confirm answered, "unasked" before
    reported,      \* cmd_review: the plan and its estimated cost have been printed
    page,          \* html.new_page: the fragments of the saved page, <<>> before
    job_assistant, \* backend: the assistant_id the last job was created with
    patch_hunks,   \* diff_by_file: the hunks of the file's patch
    content,       \* annotated_file_contents: the text of the file, a tuple of characters
    changed_line_ranges, \* annotated_file_contents: the (start, end) pairs it is given
    annotated      \* annotated_file_contents: the lines of the text it returned

\* the configuration and the command line dialogue
\* the annotation of one file
annotation == <<patch_hunks, content, changed_line_ranges, annotated>>

env == <<cfg, yes, confirmed, reported, page, job_assistant, annotation>>

vars == <<pc, cur, plan, review_chunks, idx, run, attempts, chunk_result,
          results, threads, chunk_log, exc, env>>

(***************************************************************************)
(* Bounds of the model.                                                    *)
(***************************************************************************)
MaxFiles == 4

MaxCalls == 2

\* characters of a file's text
MaxChars == 5

\* highest line a changed range or a hunk starts at
MaxLineNo == 3

\* ranges handed to annotated_file_contents, hunks of a patch
MaxRanges == 2

(***************************************************************************)
(* Program constants.                                                      *)
(***************************************************************************)
MAX_TOKENS_PER_REVIEW == 20 * 1000

MAX_WAIT_SECONDS == 120

SLEEP_DURATION_SECONDS == 5

MAX_RETRIES == MAX_WAIT_SECONDS \div SLEEP_DURATION_SECONDS

REVIEW_THREAD_INSTRUCTIONS == <<"REVIEW_THREAD_INSTRUCTIONS">>

\* SINGLE_MESSAGE.format(file_path=..., file_contents_with_line_numbers=...)
SINGLE_MESSAGE(file_path) == <<"SINGLE_MESSAGE", file_path>>

(***************************************************************************)
(* Inputs: what the tokenizer, the disk and the backend can answer.        *)
(***************************************************************************)
\* llm.num_tokens(msg) and llm.num_tokens(str(unified_diff)) as the planning
\* specification draws them: 8000 + 12000 is exactly the budget, 25000 is
\* above it
PlanMsgTokens == {8000, 12000, 25000}

PlanDiffTokens == {300, 700}

\* the same, as the specification of the whole run draws them: two files fill
\* a chunk exactly
RunMsgTokens == {10000, 25000}

RunDiffTokens == {300}

\* the file at root_dir/file_path: readable text, holding a NUL byte, or absent
DiskStates == {"text", "binary", "missing"}

\* Run.status values the backend reports
PendingStatuses == {"queued", "in_progress"}

RunStatuses == PendingStatuses \cup {"requires_action", "completed", "failed"}

\* call.function.arguments: a JSON text; well formed when it validates as a
\* FileReviewResult
ToolCalls ==
    { [wellformed |-> TRUE, file_path |-> 1, accepted |-> TRUE],
      [wellformed |-> TRUE, file_path |-> 2, accepted |-> FALSE],
      [wellformed |-> FALSE, file_path |-> 0, accepted |-> FALSE] }

RECURSIVE Flatten(_)
Flatten(seqs) == IF seqs = <<>> THEN <<>> ELSE Head(seqs) \o Flatten(Tail(seqs))

RECURSIVE SumSeq(_)
SumSeq(ns) == IF ns = <<>> THEN 0 ELSE Head(ns) + SumSeq(Tail(ns))

RECURSIVE SeqsUpTo(_, _)
SeqsUpTo(S, n) ==
    IF n = 0 THEN {<<>>}
    ELSE LET shorter == SeqsUpTo(S, n - 1)
         IN  shorter \cup {Append(s, x) : s \in {t \in shorter : Len(t) = n - 1}, x \in S}

NoAction == [present |-> FALSE, tool_calls |-> <<>>]

\* Run.required_action: None, or submit_tool_outputs.tool_calls
RequiredActions ==
    {NoAction} \cup [present : {TRUE}, tool_calls : SeqsUpTo(ToolCalls, MaxCalls)]

\* a required_action left on a run that no longer requires action
StaleAction ==
    [present |-> TRUE,
     tool_calls |-> <<[wellformed |-> TRUE, file_path |-> 1, accepted |-> TRUE]>>]

\* what runs.retrieve answers: the backend sets required_action on a run that
\* requires action; a failed run may still carry one
BackendRuns ==
    [status : {"requires_action"}, required_action : RequiredActions \ {NoAction}]
        \cup [status : RunStatuses \ {"requires_action"}, required_action : {NoAction}]
        \cup [status : {"failed"}, required_action : {StaleAction}]

\* any Run object, as _deserialize_review_response may be handed
AnyRuns == [status : RunStatuses, required_action : RequiredActions]

NoRun == [status |-> "None", required_action |-> NoAction]

NoFile == [file_path |-> 0, unified_diff |-> "None", reason |-> "", disk |-> "missing",
           contents |-> "None", msg_tokens |-> 0, diff_tokens |-> 0]

(***************************************************************************)
(* review.py: the diff source. A patched file is binary, removed, of an    *)
(* excluded extension, or none of these.                                   *)
(***************************************************************************)
PatchedFiles ==
    { [is_binary_file |-> FALSE, is_removed_file |-> FALSE, is_excluded |-> FALSE],
      [is_binary_file |-> TRUE, is_removed_file |-> FALSE, is_excluded |-> FALSE],
      [is_binary_file |-> FALSE, is_removed_file |-> TRUE, is_excluded |-> FALSE],
      [is_binary_file |-> FALSE, is_removed_file |-> FALSE, is_excluded |-> TRUE] }

\* can_review: (proceed, reason)
can_review(single_file) ==
    IF single_file.is_binary_file THEN <<FALSE, "binary file">>
    ELSE IF single_file.is_removed_file THEN <<FALSE, "removed file">>
    ELSE IF single_file.is_excluded THEN <<FALSE, "excluded file extension">>
    ELSE <<TRUE, "">>

\* SCMReview.diff_by_file, one patched file: the unified diff it yields (None
\* when the file cannot be reviewed) and the reason it logs, which is not part
\* of the tuple it yields
diff_by_file(single_file) ==
    LET verdict == can_review(single_file)
    IN  [unified_diff |-> IF verdict[1] THEN "diff" ELSE "None",
         reason |-> verdict[2]]

\* SCMReview.current_file_contents: the text at the head commit, or None when
\* reading it fails (the error is logged)
FileContents == {"str", "None"}

\* llm.num_tokens of a message rendered from no content: the least of the counts
TokensOfEmptyContents(MsgTokens) ==
    CHOOSE m \in MsgTokens : \A n \in MsgTokens : m <= n

(***************************************************************************)
(* review.py: ReviewFile, ReviewPlan                                       *)
(***************************************************************************)
ReviewFile(file_path, status, message, input_tokens, skipped_reason) ==
    [file_path |-> file_path, message |-> message, status |-> status,
     input_tokens |-> input_tokens, skipped_reason |-> skipped_reason]

ReviewPlan == [files |-> <<>>, input_tokens |-> 0, estimated_output_tokens |-> 0]

add_file(p, file, in_tokens, est_out_tokens) ==
    [files |-> Append(p.files, file),
     input_tokens |-> p.input_tokens + in_tokens,
     estimated_output_tokens |-> p.estimated_output_tokens + est_out_tokens]

(***************************************************************************)
(* scm.file_is_binary opens the file: it raises when the file is absent.   *)
(***************************************************************************)
file_is_binary_raises(f) == f.disk = "missing"

file_is_binary(f) == f.disk = "binary"

(***************************************************************************)
(* plan_code_review, the body of the loop for one yielded file: the unit   *)
(* and the two token counts handed to add_file.                            *)
(***************************************************************************)
TooLarge(num_input_tokens) == num_input_tokens > MAX_TOKENS_PER_REVIEW

\* faulty variant: the too-large branch forgets to reset approx_output_tokens
PlanStep_KeepsOutputTokens(f) ==
    IF file_is_binary(f) \/ f.unified_diff = "None"
    THEN [unit |-> ReviewFile(f.file_path, "skipped", <<>>, 0,
                              "binary or generated file"),
          in_tokens |-> 0, out_tokens |-> 0]
    ELSE IF TooLarge(f.msg_tokens)
    THEN [unit |-> ReviewFile(f.file_path, "skipped", SINGLE_MESSAGE(f.file_path),
                              0, "file too large"),
          in_tokens |-> 0, out_tokens |-> f.diff_tokens]
    ELSE [unit |-> ReviewFile(f.file_path, "needs_review",
                              SINGLE_MESSAGE(f.file_path), f.msg_tokens, "None"),
          in_tokens |-> f.msg_tokens, out_tokens |-> f.diff_tokens]

\* faulty variant: the too-large branch forgets to reset num_input_tokens for
\* the total
PlanStep_KeepsInputTokens(f) ==
    IF file_is_binary(f) \/ f.unified_diff = "None"
    THEN [unit |-> ReviewFile(f.file_path, "skipped", <<>>, 0,
                              "binary or generated file"),
          in_tokens |-> 0, out_tokens |-> 0]
    ELSE IF TooLarge(f.msg_tokens)
    THEN [unit |-> ReviewFile(f.file_path, "skipped", SINGLE_MESSAGE(f.file_path),
                              0, "file too large"),
          in_tokens |-> f.msg_tokens, out_tokens |-> 0]
    ELSE [unit |-> ReviewFile(f.file_path, "needs_review",
                              SINGLE_MESSAGE(f.file_path), f.msg_tokens, "None"),
          in_tokens |-> f.msg_tokens, out_tokens |-> f.diff_tokens]

PlanStep(f) ==
    IF file_is_binary(f) \/ f.unified_diff = "None"
    THEN [unit |-> ReviewFile(f.file_path, "skipped", <<>>, 0,
                              "binary or generated file"),
          in_tokens |-> 0, out_tokens |-> 0]
    ELSE IF TooLarge(f.msg_tokens)
    THEN [unit |-> ReviewFile(f.file_path, "skipped", SINGLE_MESSAGE(f.file_path),
                              0, "file too large"),
          in_tokens |-> 0, out_tokens |-> 0]
    ELSE [unit |-> ReviewFile(f.file_path, "needs_review",
                              SINGLE_MESSAGE(f.file_path), f.msg_tokens, "None"),
          in_tokens |-> f.msg_tokens, out_tokens |-> f.diff_tokens]

(***************************************************************************)
(* execute_code_review, the chunking loop over plan.files.                 *)
(***************************************************************************)
\* faulty variant: the test forgets the running sum
Overflows_NoRunningSum(review_tokens, step) ==
    step.input_tokens > MAX_TOKENS_PER_REVIEW

Overflows(review_tokens, step) ==
    review_tokens + step.input_tokens > MAX_TOKENS_PER_REVIEW

\* faulty variant: the loop does not test step.status
RECURSIVE ChunkLoop_NoStatusTest(_, _, _, _, _)
ChunkLoop_NoStatusTest(files, i, chunks, current_chunk, review_tokens) ==
    IF i > Len(files)
    THEN IF current_chunk # <<>> THEN Append(chunks, current_chunk) ELSE chunks
    ELSE LET step == files[i]
         IN  IF Overflows(review_tokens, step)
             THEN ChunkLoop_NoStatusTest(files, i + 1, Append(chunks, current_chunk),
                                         <<>>, 0)
             ELSE ChunkLoop_NoStatusTest(files, i + 1, chunks,
                                         Append(current_chunk, step.message),
                                         review_tokens + step.input_tokens)

RECURSIVE ChunkLoop(_, _, _, _, _)
ChunkLoop(files, i, chunks, current_chunk, review_tokens) ==
    IF i > Len(files)
    THEN IF current_chunk # <<>> THEN Append(chunks, current_chunk) ELSE chunks
    ELSE LET step == files[i]
         IN  IF step.status = "skipped"
             THEN ChunkLoop(files, i + 1, chunks, current_chunk, review_tokens)
             ELSE IF Overflows(review_tokens, step)
             THEN ChunkLoop(files, i + 1, Append(chunks, current_chunk), <<>>, 0)
             ELSE ChunkLoop(files, i + 1, chunks,
                            Append(current_chunk, step.message),
                            review_tokens + step.input_tokens)

BuildChunks(files) == ChunkLoop(files, 1, <<>>, <<>>, 0)

(***************************************************************************)
(* _deserialize_review_response                                            *)
(***************************************************************************)
\* FileReviewResult.model_validate_json(call.function.arguments)
FileReviewResult(call) == [file_path |-> call.file_path, accepted |-> call.accepted]

\* faulty variant: the try wraps the whole loop, so the first malformed entry ends it
RECURSIVE DeserializeCalls_StopsAtMalformed(_, _, _)
DeserializeCalls_StopsAtMalformed(tool_calls, i, res) ==
    IF i > Len(tool_calls) THEN res
    ELSE IF tool_calls[i].wellformed
    THEN DeserializeCalls_StopsAtMalformed(tool_calls, i + 1,
             Append(res, FileReviewResult(tool_calls[i])))
    ELSE res

RECURSIVE DeserializeCalls(_, _, _)
DeserializeCalls(tool_calls, i, res) ==
    IF i > Len(tool_calls) THEN res
    ELSE IF tool_calls[i].wellformed
    THEN DeserializeCalls(tool_calls, i + 1, Append(res, FileReviewResult(tool_calls[i])))
    ELSE DeserializeCalls(tool_calls, i + 1, res)

\* faulty variant: the status of the run is not looked at
HasReviewPayload_AnyStatus(response) ==
    response.required_action.present

HasReviewPayload(response) ==
    /\ response.status \in {"requires_action", "completed"}
    /\ response.required_action.present

deserialize_review_response(response) ==
    IF HasReviewPayload(response)
    THEN DeserializeCalls(response.required_action.tool_calls, 1, <<>>)
    ELSE <<>>

(***************************************************************************)
(* wait_for_run_completion: the test that ends the polling loop.           *)
(***************************************************************************)
\* faulty variant: a failed run is polled again
StillRunning_FailedToo(status) == status \in {"queued", "in_progress", "failed"}

\* faulty variant: only a queued run is polled again
StillRunning_QueuedOnly(status) == status \in {"queued"}

StillRunning(status) == status \in {"queued", "in_progress"}

\* faulty variant: the chunk's results go in front
Extend_InFront(res, more) == more \o res

\* results.extend(...)
Extend(res, more) == res \o more

(***************************************************************************)
(* strings.annotated_file_contents and the changed ranges it is given.     *)
(* A str is a tuple of one-character strings.                              *)
(***************************************************************************)
MAX_PADDING == 5

\* the texts of files: letters and line ends
Contents == SeqsUpTo({"a", "\n"}, MaxChars)

\* (start, end) pairs: empty, of one line, of two lines
LineRanges ==
    {<<start, end>> : start \in 1 .. MaxLineNo, end \in 0 .. MaxLineNo + 1} \cap
    {r \in Nat \X Nat : r[2] \in {r[1] - 1, r[1], r[1] + 1}}

\* the hunks of a patch: hunk.target_start, hunk.target_length
Hunks == [target_start : 1 .. MaxLineNo, target_length : 0 .. 2]

\* str.splitlines(): the lines without their ends; no line after a final line end
RECURSIVE splitlines(_, _, _)
splitlines(text, lines, line) ==
    IF text = <<>>
    THEN IF line = <<>> THEN lines ELSE Append(lines, line)
    ELSE IF Head(text) = "\n"
    THEN splitlines(Tail(text), Append(lines, line), <<>>)
    ELSE splitlines(Tail(text), lines, Append(line, Head(text)))

DigitChar(d) == <<"0", "1", "2", "3", "4", "5", "6", "7", "8", "9">>[d + 1]

\* str(n) for n >= 0
RECURSIVE Digits(_)
Digits(n) ==
    IF n < 10 THEN <<DigitChar(n)>> ELSE Digits(n \div 10) \o <<DigitChar(n % 10)>>

\* f"{n: >{width}}": right aligned, filled with spaces up to the width
RECURSIVE PadLeft(_, _)
PadLeft(chars, width) ==
    IF Len(chars) >= width THEN chars ELSE PadLeft(<<" ">> \o chars, width)

\* faulty variant: the end of a range is not part of it
is_changed_line_EndExcluded(line_number, ranges) ==
    \E r \in 1 .. Len(ranges) : ranges[r][1] <= line_number /\ line_number < ranges[r][2]

\* any(start <= line_number <= end for start, end in changed_line_ranges)
is_changed_line(line_number, ranges) ==
    \E r \in 1 .. Len(ranges) : ranges[r][1] <= line_number /\ line_number <= ranges[r][2]

\* one line of the annotated text: marker, padded number, the line after a space
AnnotatedLine(line_number, line, ranges) ==
    <<IF is_changed_line(line_number, ranges) THEN "*" ELSE " ">>
        \o PadLeft(Digits(line_number), MAX_PADDING)
        \o IF line # <<>> THEN <<" ">> \o line ELSE <<>>

\* annotated_file_contents(content, changed_line_ranges, start): the lines "\n"
\* joins
annotated_file_contents(text, ranges, start) ==
    LET lines == splitlines(text, <<>>, <<>>)
    IN  [k \in 1 .. Len(lines) |-> AnnotatedLine(start + (k - 1), lines[k], ranges)]

\* SCMReview.diff_by_file: hunk_lines
hunk_lines(single_file_patch) ==
    [h \in 1 .. Len(single_file_patch) |->
        <<single_file_patch[h].target_start,
          single_file_patch[h].target_start + single_file_patch[h].target_length>>]

(***************************************************************************)
(* The configuration: the model name, the cost table, the assistant id.    *)
(***************************************************************************)
\* the keys of constants.MODEL_COSTS
MODEL_COSTS == {"gpt-4-1106-preview"}

\* the model names tiktoken.encoding_for_model has an encoding for, among those
\* the configuration is drawn from
EncodableModels == {"gpt-4-1106-preview", "gpt-4"}

\* values of AppConfig.model_name: the default, a model that is priced nowhere,
\* a name no library knows
ModelNames == EncodableModels \cup {"no-such-model"}

\* values of AppConfig.assistant_id: "" until an assistant was created and saved
AssistantIds == {"", "asst_1"}

\* llm.num_tokens: encoding_for_model raises KeyError for a name it cannot map
num_tokens_raises(model_name) == model_name \notin EncodableModels

\* faulty variant: llm.cost prices a model that is not in the table
cost_raises_Never(model_name) == FALSE

\* llm.cost: `if model not in constants.MODEL_COSTS: raise ValueError`
cost_raises(model_name) == model_name \notin MODEL_COSTS

\* faulty variant: an assistant is created whatever the configuration holds
assistant_id_AlwaysCreates(c) == "asst_new"

\* _assistant_id(): the configured id, or the id of the assistant created now
assistant_id(c) == IF c.assistant_id = "" THEN "asst_new" ELSE c.assistant_id

(***************************************************************************)
(* The state after construction: cmd_review has built the review and is    *)
(* about to iterate diff_by_file.                                          *)
(***************************************************************************)
Init ==
    /\ pc = "plan_loop"
    /\ cur = NoFile
    /\ plan = ReviewPlan
    /\ review_chunks = <<>>
    /\ idx = 0
    /\ run = NoRun
    /\ attempts = 0
    /\ chunk_result = NoRun
    /\ results = <<>>
    /\ threads = <<>>
    /\ chunk_log = <<>>
    /\ exc = "None"
    /\ cfg \in [model_name : ModelNames, assistant_id : AssistantIds]
    /\ yes \in BOOLEAN
    /\ confirmed = "unasked"
    /\ reported = FALSE
    /\ page = <<>>
    /\ job_assistant = ""
    /\ patch_hunks = <<>>
    /\ content = <<>>
    /\ changed_line_ranges = <<>>
    /\ annotated = "None"

(***************************************************************************)
(* plan_code_review                                                        *)
(***************************************************************************)
\* diff_by_file yields the next (file_path, unified_diff, changed_hunks)
NextFile(MsgTokens, DiffTokens) ==
    /\ pc = "plan_loop"
    /\ Len(plan.files) < MaxFiles
    /\ \E disk \in DiskStates, single_file \in PatchedFiles,
          contents \in FileContents, mt \in MsgTokens, dt \in DiffTokens :
          /\ contents = "None" => mt = TokensOfEmptyContents(MsgTokens)
          /\ cur' = [file_path |-> Len(plan.files) + 1,
                     unified_diff |-> diff_by_file(single_file).unified_diff,
                     reason |-> diff_by_file(single_file).reason,
                     disk |-> disk, contents |-> contents,
                     msg_tokens |-> mt, diff_tokens |-> dt]
    /\ pc' = "plan_body"
    /\ UNCHANGED <<plan, review_chunks, idx, run, attempts, chunk_result,
                   results, threads, chunk_log, exc, env>>

\* diff_by_file is exhausted: plan_code_review returns the plan
PlanDone ==
    /\ pc = "plan_loop"
    /\ cur' = NoFile
    /\ pc' = "cost"
    /\ UNCHANGED <<plan, review_chunks, idx, run, attempts, chunk_result,
                   results, threads, chunk_log, exc, env>>

\* the loop body when scm.file_is_binary cannot open the file
PlanFileRaises ==
    /\ pc = "plan_body"
    /\ file_is_binary_raises(cur)
    /\ pc' = "raised"
    /\ exc' = "FileNotFoundError"
    /\ UNCHANGED <<cur, plan, review_chunks, idx, run, attempts, chunk_result,
                   results, threads, chunk_log, env>>

\* whether the loop body gets to count the tokens of the file's message
CountsTokens(f) == ~(file_is_binary(f) \/ f.unified_diff = "None")

\* the loop body when llm.num_tokens has no encoding for the configured model
PlanTokensRaise ==
    /\ pc = "plan_body"
    /\ ~file_is_binary_raises(cur)
    /\ CountsTokens(cur)
    /\ num_tokens_raises(cfg.model_name)
    /\ pc' = "raised"
    /\ exc' = "KeyError"
    /\ UNCHANGED <<cur, plan, review_chunks, idx, run, attempts, chunk_result,
                   results, threads, chunk_log, env>>

\* the loop body: decide the unit and add it to the plan
PlanFile ==
    /\ pc = "plan_body"
    /\ ~file_is_binary_raises(cur)
    /\ CountsTokens(cur) => ~num_tokens_raises(cfg.model_name)
    /\ LET step == PlanStep(cur)
       IN  plan' = add_file(plan, step.unit, step.in_tokens, step.out_tokens)
    /\ pc' = "plan_loop"
    /\ UNCHANGED <<cur, review_chunks, idx, run, attempts, chunk_result,
                   results, threads, chunk_log, exc, env>>

(***************************************************************************)
(* cmd_review: run.cost(plan), the printed plan, `yes or typer.confirm()`  *)
(***************************************************************************)
\* run.cost raises: llm.num_tokens on the instructions, then llm.cost
CostRaises ==
    /\ pc = "cost"
    /\ num_tokens_raises(cfg.model_name) \/ cost_raises(cfg.model_name)
    /\ pc' = "raised"
    /\ exc' = IF num_tokens_raises(cfg.model_name) THEN "KeyError" ELSE "ValueError"
    /\ UNCHANGED <<cur, plan, review_chunks, idx, run, attempts, chunk_result,
                   results, threads, chunk_log, env>>

\* run.cost returns and the plan is printed with its estimated cost
Report ==
    /\ pc = "cost"
    /\ ~(num_tokens_raises(cfg.model_name) \/ cost_raises(cfg.model_name))
    /\ reported' = TRUE
    /\ pc' = "confirm"
    /\ UNCHANGED <<cur, plan, review_chunks, idx, run, attempts, chunk_result,
                   results, threads, chunk_log, exc, cfg, yes, confirmed, page,
                   job_assistant, annotation>>

\* faulty variant: the review goes on whatever typer.confirm answers
Confirm_IgnoresAnswer ==
    /\ pc = "confirm"
    /\ IF yes
       THEN /\ pc' = "execute"
            /\ UNCHANGED confirmed
       ELSE \E answer \in {"y", "n"} :
               /\ confirmed' = answer
               /\ pc' = "execute"
    /\ UNCHANGED <<cur, plan, review_chunks, idx, run, attempts, chunk_result,
                   results, threads, chunk_log, exc, cfg, yes, reported, page,
                   job_assistant, annotation>>

\* `if yes or typer.confirm(...)`: the user is asked only without --yes
Confirm ==
    /\ pc = "confirm"
    /\ IF yes
       THEN /\ pc' = "execute"
            /\ UNCHANGED confirmed
       ELSE \E answer \in {"y", "n"} :
               /\ confirmed' = answer
               /\ pc' = IF answer = "y" THEN "execute" ELSE "declined"
    /\ UNCHANGED <<cur, plan, review_chunks, idx, run, attempts, chunk_result,
                   results, threads, chunk_log, exc, cfg, yes, reported, page,
                   job_assistant, annotation>>

(***************************************************************************)
(* execute_code_review                                                     *)
(***************************************************************************)
\* where the `for idx, chunk in enumerate(review_chunks)` loop goes next
LoopHead(n, chunks) == IF n < Len(chunks) THEN "submit" ELSE "done"

\* the chunking loop, up to `results = []`
StartReview ==
    /\ pc = "execute"
    /\ review_chunks' = BuildChunks(plan.files)
    /\ idx' = 0
    /\ results' = <<>>
    /\ pc' = LoopHead(0, review_chunks')
    /\ UNCHANGED <<cur, plan, run, attempts, chunk_result, threads, chunk_log, exc,
                   env>>

\* faulty variant: the instructions come after the messages of the chunk
ThreadMessages_InstructionsLast(chunk) == chunk \o <<REVIEW_THREAD_INSTRUCTIONS>>

\* the thread create_and_run is given for a chunk
ThreadMessages(chunk) == <<REVIEW_THREAD_INSTRUCTIONS>> \o chunk

\* client.beta.threads.create_and_run(assistant_id=_assistant_id(), ...) answers
\* with a queued run; an assistant created for it is saved in the configuration
CreateAndRun ==
    /\ pc = "submit"
    /\ cfg' = [cfg EXCEPT !.assistant_id = assistant_id(cfg)]
    /\ threads' = Append(threads, ThreadMessages(review_chunks[idx + 1]))
    /\ run' = [status |-> "queued", required_action |-> NoAction]
    /\ attempts' = 0
    /\ chunk_result' = NoRun
    /\ pc' = "poll"
    /\ UNCHANGED <<cur, plan, review_chunks, idx, results, chunk_log, exc,
                   yes, confirmed, reported, page, annotation>>
    /\ job_assistant' = assistant_id(cfg)

\* client.beta.assistants.create(...) or client.beta.threads.create_and_run(...)
\* raises: nothing catches it; the assistant may have been created and saved
CreateAndRunRaises ==
    /\ pc = "submit"
    /\ \E id \in {cfg.assistant_id, assistant_id(cfg)} :
          cfg' = [cfg EXCEPT !.assistant_id = id]
    /\ pc' = "raised"
    /\ exc' = "APIConnectionError"
    /\ UNCHANGED <<cur, plan, review_chunks, idx, run, attempts, chunk_result,
                   results, threads, chunk_log, yes, confirmed, reported, page,
                   job_assistant, annotation>>

\* one iteration of the polling loop: sleep, retrieve, test the status; on a
\* status that ends the loop the run is returned and deserialized at once
Retrieve ==
    /\ pc = "poll"
    /\ attempts < MAX_RETRIES
    /\ \E fetched \in BackendRuns :
          IF StillRunning(fetched.status)
          THEN /\ run' = fetched
               /\ attempts' = attempts + 1
               /\ UNCHANGED <<pc, idx, chunk_result, results, chunk_log, env>>
          ELSE /\ chunk_result' = fetched
               /\ results' = Extend(results, deserialize_review_response(fetched))
               /\ chunk_log' = Append(chunk_log,
                      [outcome |-> fetched.status,
                       results |-> deserialize_review_response(fetched)])
               /\ run' = NoRun
               /\ attempts' = 0
               /\ idx' = idx + 1
               /\ pc' = LoopHead(idx + 1, review_chunks)
    /\ UNCHANGED <<cur, plan, review_chunks, threads, exc, env>>

\* client.beta.threads.runs.retrieve(...) raises: nothing catches it
RetrieveRaises ==
    /\ pc = "poll"
    /\ attempts < MAX_RETRIES
    /\ pc' = "raised"
    /\ exc' = "APIConnectionError"
    /\ UNCHANGED <<cur, plan, review_chunks, idx, run, attempts, chunk_result,
                   results, threads, chunk_log, env>>

\* faulty variant: a timeout ends the loop over the chunks
TimedOut_EndsReview ==
    /\ pc = "poll"
    /\ attempts = MAX_RETRIES
    /\ chunk_result' = NoRun
    /\ chunk_log' = Append(chunk_log, [outcome |-> "timed_out", results |-> <<>>])
    /\ run' = NoRun
    /\ attempts' = 0
    /\ idx' = idx + 1
    /\ pc' = "done"
    /\ UNCHANGED <<cur, plan, review_chunks, results, threads, exc, env>>

\* the polling loop ran MAX_RETRIES times: wait_for_run_completion returns None
TimedOut ==
    /\ pc = "poll"
    /\ attempts = MAX_RETRIES
    /\ chunk_result' = NoRun
    /\ chunk_log' = Append(chunk_log, [outcome |-> "timed_out", results |-> <<>>])
    /\ run' = NoRun
    /\ attempts' = 0
    /\ idx' = idx + 1
    /\ pc' = LoopHead(idx + 1, review_chunks)
    /\ UNCHANGED <<cur, plan, review_chunks, results, threads, exc, env>>

(***************************************************************************)
(* html.new_page                                                           *)
(***************************************************************************)
\* all_comments[file_path]
CommentsOf(file_path, comments) ==
    SelectSeq(comments, LAMBDA c : c.file_path = file_path)

\* the status of the fragment new_page makes for a file of the plan
FragmentStatus(file, comments) ==
    LET own == CommentsOf(file.file_path, comments)
    IN  IF own # <<>>
        THEN IF \A i \in 1 .. Len(own) : own[i].accepted
             THEN "accepted" ELSE "rejected"
        ELSE "skipped"

_ReviewFragment(file, comments) ==
    [file_path |-> file.file_path, status |-> FragmentStatus(file, comments)]

\* reviewed_fragments + skipped_fragments
new_page(p, comments) ==
    LET fragments == [i \in 1 .. Len(p.files) |-> _ReviewFragment(p.files[i], comments)]
    IN  SelectSeq(fragments, LAMBDA f : f.status # "skipped")
            \o SelectSeq(fragments, LAMBDA f : f.status = "skipped")

\* cmd_review: execute_code_review returned, the page is generated and saved
NewPage ==
    /\ pc = "done"
    /\ page' = new_page(plan, results)
    /\ pc' = "page_saved"
    /\ UNCHANGED <<cur, plan, review_chunks, idx, run, attempts, chunk_result,
                   results, threads, chunk_log, exc, cfg, yes, confirmed, reported,
                   job_assistant, annotation>>

Next ==
    \/ NextFile(RunMsgTokens, RunDiffTokens)
    \/ PlanDone
    \/ PlanFileRaises
    \/ PlanTokensRaise
    \/ PlanFile
    \/ CostRaises
    \/ Report
    \/ Confirm
    \/ StartReview
    \/ CreateAndRun
    \/ CreateAndRunRaises
    \/ Retrieve
    \/ RetrieveRaises
    \/ TimedOut
    \/ NewPage

Spec == Init /\ [][Next]_vars

(***************************************************************************)
(* Planning and chunking alone, over more kinds of files: the run up to    *)
(* the first submission.                                                   *)
(***************************************************************************)
NextPlan ==
    \/ NextFile(PlanMsgTokens, PlanDiffTokens)
    \/ PlanDone
    \/ PlanFileRaises
    \/ PlanTokensRaise
    \/ PlanFile
    \/ CostRaises
    \/ Report
    \/ Confirm
    \/ StartReview

\* planning never reads the assistant id: one value of it is enough here
InitPlan == Init /\ cfg.assistant_id = "asst_1"

SpecPlan == InitPlan /\ [][NextPlan]_vars

(***************************************************************************)
(* The chunking of execute_code_review alone, applied to any ReviewPlan a  *)
(* caller may hand it: also one whose needs_review units exceed the budget *)
(* on their own, which plan_code_review never builds.                      *)
(***************************************************************************)
UnitKinds ==
    [status : {"needs_review"}, input_tokens : PlanMsgTokens \cup {15000},
     skipped_reason : {"None"}]
        \cup [status : {"skipped"}, input_tokens : {0},
              skipped_reason : {"binary or generated file", "file too large"}]

UnitOfKind(kind, file_path) ==
    ReviewFile(file_path, kind.status,
               IF kind.skipped_reason = "binary or generated file"
               THEN <<>> ELSE SINGLE_MESSAGE(file_path),
               kind.input_tokens, kind.skipped_reason)

PlanOfKinds(kinds) ==
    LET files == [i \in 1 .. Len(kinds) |-> UnitOfKind(kinds[i], i)]
    IN  [files |-> files,
         input_tokens |-> SumSeq([i \in 1 .. Len(files) |-> files[i].input_tokens]),
         estimated_output_tokens |-> 0]

InitChunks ==
    /\ pc = "execute"
    /\ plan \in {PlanOfKinds(kinds) : kinds \in SeqsUpTo(UnitKinds, MaxFiles)}
    /\ cur = NoFile
    /\ review_chunks = <<>>
    /\ idx = 0
    /\ run = NoRun
    /\ attempts = 0
    /\ chunk_result = NoRun
    /\ results = <<>>
    /\ threads = <<>>
    /\ chunk_log = <<>>
    /\ exc = "None"
    /\ cfg = [model_name |-> "gpt-4-1106-preview", assistant_id |-> "asst_1"]
    /\ yes = TRUE
    /\ confirmed = "unasked"
    /\ reported = TRUE
    /\ page = <<>>
    /\ job_assistant = ""
    /\ patch_hunks = <<>>
    /\ content = <<>>
    /\ changed_line_ranges = <<>>
    /\ annotated = "None"

SpecChunks == InitChunks /\ [][StartReview]_vars

(***************************************************************************)
(* _deserialize_review_response alone, applied to any Run object.          *)
(***************************************************************************)
InitDeserialize ==
    /\ pc = "deserialize"
    /\ chunk_result \in AnyRuns
    /\ cur = NoFile
    /\ plan = ReviewPlan
    /\ review_chunks = <<>>
    /\ idx = 0
    /\ run = NoRun
    /\ attempts = 0
    /\ results = <<>>
    /\ threads = <<>>
    /\ chunk_log = <<>>
    /\ exc = "None"
    /\ cfg = [model_name |-> "gpt-4-1106-preview", assistant_id |-> "asst_1"]
    /\ yes = TRUE
    /\ confirmed = "unasked"
    /\ reported = TRUE
    /\ page = <<>>
    /\ job_assistant = ""
    /\ patch_hunks = <<>>
    /\ content = <<>>
    /\ changed_line_ranges = <<>>
    /\ annotated = "None"

Deserialize ==
    /\ pc = "deserialize"
    /\ results' = deserialize_review_response(chunk_result)
    /\ pc' = "deserialized"
    /\ UNCHANGED <<cur, plan, review_chunks, idx, run, attempts, chunk_result,
                   threads, chunk_log, exc, env>>

SpecDeserialize == InitDeserialize /\ [][Deserialize]_vars

(***************************************************************************)
(* annotated_file_contents alone, applied to any text and any ranges, and  *)
(* applied to the ranges SCMReview.diff_by_file makes of a patch's hunks.  *)
(***************************************************************************)
InitAnnotation(at, hunks, ranges) ==
    /\ pc = at
    /\ patch_hunks \in hunks
    /\ content \in Contents
    /\ changed_line_ranges \in ranges
    /\ annotated = "None"
    /\ cur = NoFile
    /\ plan = ReviewPlan
    /\ review_chunks = <<>>
    /\ idx = 0
    /\ run = NoRun
    /\ attempts = 0
    /\ chunk_result = NoRun
    /\ results = <<>>
    /\ threads = <<>>
    /\ chunk_log = <<>>
    /\ exc = "None"
    /\ cfg = [model_name |-> "gpt-4-1106-preview", assistant_id |-> "asst_1"]
    /\ yes = TRUE
    /\ confirmed = "unasked"
    /\ reported = FALSE
    /\ page = <<>>
    /\ job_assistant = ""

\* diff_by_file yields the hunk_lines of a reviewable file's patch
HunkLines ==
    /\ pc = "hunk_lines"
    /\ changed_line_ranges' = hunk_lines(patch_hunks)
    /\ pc' = "annotate"
    /\ UNCHANGED <<cur, plan, review_chunks, idx, run, attempts, chunk_result,
                   results, threads, chunk_log, exc, cfg, yes, confirmed, reported,
                   page, job_assistant, patch_hunks, content, annotated>>

\* plan_code_review: strings.annotated_file_contents(file_contents or "", changed_hunks)
Annotate ==
    /\ pc = "annotate"
    /\ annotated' = annotated_file_contents(content, changed_line_ranges, 1)
    /\ pc' = "annotated"
    /\ UNCHANGED <<cur, plan, review_chunks, idx, run, attempts, chunk_result,
                   results, threads, chunk_log, exc, cfg, yes, confirmed, reported,
                   page, job_assistant, patch_hunks, content, changed_line_ranges>>

InitAnnotate == InitAnnotation("annotate", {<<>>}, SeqsUpTo(LineRanges, MaxRanges))

SpecAnnotate == InitAnnotate /\ [][Annotate]_vars

InitHunks == InitAnnotation("hunk_lines", SeqsUpTo(Hunks, MaxRanges), {<<>>})

NextHunks ==
    \/ HunkLines
    \/ Annotate

SpecHunks == InitHunks /\ [][NextHunks]_vars

(***************************************************************************)
(* Vocabulary of the properties.                                           *)
(***************************************************************************)
IsNeedsReview(unit) == unit.status = "needs_review"

NeedsReviewUnits(files) == SelectSeq(files, IsNeedsReview)

MessagesOf(units) == [i \in 1 .. Len(units) |-> units[i].message]

\* the unit of the plan a chunk's message was taken from
UnitOfMessage(msg) ==
    CHOOSE unit \in {plan.files[i] : i \in 1 .. Len(plan.files)} :
        IsNeedsReview(unit) /\ unit.message = msg

ChunkTokens(chunk) ==
    SumSeq([i \in 1 .. Len(chunk) |-> UnitOfMessage(chunk[i]).input_tokens])

\* execute_code_review has built review_chunks
ChunksBuilt ==
    \/ pc \in {"submit", "poll", "done"}
    \/ pc = "raised" /\ exc = "APIConnectionError"

(***************************************************************************)
(* C1: for every plan whose needs_review units are each within             *)
(* MAX_TOKENS_PER_REVIEW, the chunks partition the needs_review units:     *)
(* concatenating the chunks in order gives the messages of the             *)
(* needs_review units in plan order, each exactly once.                    *)
(* Violated: a unit that would overflow the running chunk closes the chunk *)
(* and is itself appended to no chunk.                                     *)
(***************************************************************************)
C1_ChunksPartitionNeedsReview ==
    ( /\ ChunksBuilt
      /\ \A i \in 1 .. Len(plan.files) :
            IsNeedsReview(plan.files[i])
                => plan.files[i].input_tokens <= MAX_TOKENS_PER_REVIEW )
        => Flatten(review_chunks) = MessagesOf(NeedsReviewUnits(plan.files))

(***************************************************************************)
(* C5: every chunk that holds more than one unit has summed input_tokens   *)
(* within MAX_TOKENS_PER_REVIEW.                                           *)
(***************************************************************************)
C5_MultiUnitChunkWithinBudget ==
    \A c \in 1 .. Len(review_chunks) :
        Len(review_chunks[c]) > 1
            => ChunkTokens(review_chunks[c]) <= MAX_TOKENS_PER_REVIEW

\* a chunk of two units that fills the budget exactly, and a second chunk
C5_Witness ==
    /\ ChunksBuilt
    /\ Len(review_chunks) = 2
    /\ Len(review_chunks[1]) = 2
    /\ ChunkTokens(review_chunks[1]) = MAX_TOKENS_PER_REVIEW

(***************************************************************************)
(* C9: a text file with a diff whose rendered message counts more than     *)
(* MAX_TOKENS_PER_REVIEW tokens becomes a unit with status skipped, reason *)
(* "file too large" and input_tokens 0, and adding it leaves both totals   *)
(* of the plan as they were.                                               *)
(***************************************************************************)
LastUnit(p) == p.files[Len(p.files)]

C9_TooLargeIsSkippedWithZeroTokens ==
    [][ ( /\ pc = "plan_body"
          /\ pc' = "plan_loop"
          /\ ~file_is_binary(cur)
          /\ cur.unified_diff # "None"
          /\ cur.msg_tokens > MAX_TOKENS_PER_REVIEW )
        => /\ Len(plan'.files) = Len(plan.files) + 1
           /\ LastUnit(plan').file_path = cur.file_path
           /\ LastUnit(plan').status = "skipped"
           /\ LastUnit(plan').skipped_reason = "file too large"
           /\ LastUnit(plan').input_tokens = 0
           /\ plan'.input_tokens = plan.input_tokens
           /\ plan'.estimated_output_tokens = plan.estimated_output_tokens ]_vars

\* a too large file planned after a reviewable one: the totals are the first's
C9_Witness ==
    /\ pc = "plan_loop"
    /\ Len(plan.files) = 2
    /\ plan.files[1].status = "needs_review"
    /\ plan.files[2].skipped_reason = "file too large"
    /\ cur.msg_tokens > MAX_TOKENS_PER_REVIEW
    /\ plan.input_tokens = plan.files[1].input_tokens
    /\ plan.estimated_output_tokens > 0

(***************************************************************************)
(* C10: every file the diff source yields with a null unified diff gets a  *)
(* unit with status skipped and zero tokens, whatever the file holds.      *)
(* Violated: scm.file_is_binary is evaluated before the diff is looked at, *)
(* and raises for a file that is not on disk (a removed file).             *)
(***************************************************************************)
C10_NullDiffIsSkipped ==
    (cur # NoFile /\ cur.unified_diff = "None" /\ pc # "plan_body")
        => /\ Len(plan.files) >= cur.file_path
           /\ plan.files[cur.file_path].status = "skipped"
           /\ plan.files[cur.file_path].input_tokens = 0

(***************************************************************************)
(* C2: when a job exhausts its poll attempts, the chunk adds no result and *)
(* the loop goes on to the next chunk: a review that returns has submitted *)
(* every chunk and brought every job to its end.                           *)
(***************************************************************************)
C2_TimeoutAddsNothingAndGoesOn ==
    /\ [][ (pc = "poll" /\ attempts = MAX_RETRIES)
           => /\ results' = results
              /\ idx' = idx + 1
              /\ pc' = (IF idx + 1 < Len(review_chunks) THEN "submit" ELSE "done")
              /\ exc' = "None"
              /\ chunk_log' = Append(chunk_log, [outcome |-> "timed_out",
                                                 results |-> <<>>]) ]_vars
    /\ [](pc = "done" => /\ Len(threads) = Len(review_chunks)
                         /\ Len(chunk_log) = Len(review_chunks))

\* the second chunk's job is being polled after the first one timed out
C2_Witness ==
    /\ pc = "poll"
    /\ idx = 1
    /\ attempts >= 1
    /\ Len(threads) = 2
    /\ chunk_log[1].outcome = "timed_out"
    /\ results = <<>>

(***************************************************************************)
(* C3: a transport error raised while a chunk's job is created or polled   *)
(* stays with that chunk: no such error leaves execute_code_review.        *)
(* Violated: neither create_and_run nor runs.retrieve is called inside a   *)
(* try, so the error ends the review and the results so far are lost.      *)
(***************************************************************************)
C3_TransportErrorConfinedToChunk == ~(pc = "raised" /\ exc = "APIConnectionError")

(***************************************************************************)
(* C4: for a run with status requires_action or completed that carries a   *)
(* required action, the result is exactly the well-formed tool calls,      *)
(* parsed, in payload order; malformed entries are dropped and change      *)
(* nothing else.                                                           *)
(***************************************************************************)
IsWellFormed(call) == call.wellformed

ParsedWellFormed(tool_calls) ==
    LET ok == SelectSeq(tool_calls, IsWellFormed)
    IN  [i \in 1 .. Len(ok) |->
            [file_path |-> ok[i].file_path, accepted |-> ok[i].accepted]]

C4_ExactlyTheWellFormedCalls ==
    ( /\ pc = "deserialized"
      /\ chunk_result.status \in {"requires_action", "completed"}
      /\ chunk_result.required_action.present )
        => results = ParsedWellFormed(chunk_result.required_action.tool_calls)

\* a malformed entry followed by a well-formed one gives exactly one result
C4_Witness ==
    /\ pc = "deserialized"
    /\ chunk_result.status = "requires_action"
    /\ chunk_result.required_action.present
    /\ Len(chunk_result.required_action.tool_calls) = 2
    /\ ~chunk_result.required_action.tool_calls[1].wellformed
    /\ chunk_result.required_action.tool_calls[2].wellformed
    /\ Len(results) = 1
    /\ results[1].file_path = chunk_result.required_action.tool_calls[2].file_path

(***************************************************************************)
(* C6: the status of a job is fetched only while every status fetched so   *)
(* far was queued or in_progress; the first other status ends the polling  *)
(* and the run that carried it is what wait_for_run_completion returns.    *)
(***************************************************************************)
C6_PollingStopsAtFirstOtherStatus ==
    [][ pc = "poll"
        => /\ run.status \in PendingStatuses
           /\ pc' = "poll" => run'.status \in PendingStatuses
           /\ (pc' \in {"submit", "done"} /\ attempts < MAX_RETRIES)
                 => /\ chunk_result' # NoRun
                    /\ chunk_result'.status \notin PendingStatuses ]_vars

\* a run came back failed and the next chunk is about to be submitted
C6_Witness ==
    /\ pc = "submit"
    /\ idx = 1
    /\ chunk_result.status = "failed"
    /\ chunk_log[1].outcome = "failed"

(***************************************************************************)
(* C7: at most one job is in flight: a job is created only when every job  *)
(* created before it was seen in a status other than queued and            *)
(* in_progress, or timed out.                                              *)
(***************************************************************************)
JobEnded(entry) == entry.outcome \notin PendingStatuses

C7_OneJobInFlight ==
    /\ [](Len(threads) - Len(chunk_log) \in {0, 1})
    /\ [][ Len(threads') > Len(threads)
           => /\ Len(chunk_log) = Len(threads)
              /\ \A j \in 1 .. Len(chunk_log) : JobEnded(chunk_log[j]) ]_vars

\* the second job is in flight after the first one required action
C7_Witness ==
    /\ pc = "poll"
    /\ Len(threads) = 2
    /\ Len(chunk_log) = 1
    /\ chunk_log[1].outcome = "requires_action"

(***************************************************************************)
(* C8: the results are the concatenation, in the order the chunks were     *)
(* submitted, of what each chunk gave, and what a chunk gave follows the   *)
(* order of the backend's tool calls.                                      *)
(***************************************************************************)
LoggedResults == [i \in 1 .. Len(chunk_log) |-> chunk_log[i].results]

\* got is picked from the calls at increasing positions
InCallOrder(got, calls) ==
    \E f \in [1 .. Len(got) -> 1 .. Len(calls)] :
        /\ \A i \in 1 .. Len(got) :
              /\ calls[f[i]].wellformed
              /\ got[i].file_path = calls[f[i]].file_path
              /\ got[i].accepted = calls[f[i]].accepted
        /\ \A i, j \in 1 .. Len(got) : i < j => f[i] < f[j]

C8_ResultsInChunkThenCallOrder ==
    /\ [](results = Flatten(LoggedResults))
    /\ [][ Len(chunk_log') = Len(chunk_log) + 1
           => LET got == chunk_log'[Len(chunk_log')].results
              IN  /\ results' = results \o got
                  /\ InCallOrder(got, chunk_result'.required_action.tool_calls) ]_vars

\* two chunks, the first gave one result and the second two different ones
C8_Witness ==
    /\ pc = "done"
    /\ Len(chunk_log) = 2
    /\ Len(chunk_log[1].results) = 1
    /\ Len(chunk_log[2].results) = 2
    /\ chunk_log[2].results[1] # chunk_log[2].results[2]
    /\ chunk_log[1].results[1] # chunk_log[2].results[1]
    /\ Len(results) = 3

(***************************************************************************)
(* C11: plan_code_review never fails because a file cannot be read: the    *)
(* read error is taken as empty content and planning goes on.              *)
(* Violated: scm.file_is_binary opens root_dir/file_path outside any try,  *)
(* so a file that is not on disk ends planning with FileNotFoundError.     *)
(***************************************************************************)
C11_ReadErrorNeverEndsPlanning ==
    ~(pc = "raised" /\ exc = "FileNotFoundError")

(***************************************************************************)
(* C12: the plan's input_tokens is the sum of input_tokens over its        *)
(* needs_review units, and adding a skipped unit changes neither total.    *)
(***************************************************************************)
InputTokensOf(units) == [i \in 1 .. Len(units) |-> units[i].input_tokens]

C12_TotalsCountNeedsReviewOnly ==
    /\ [](plan.input_tokens = SumSeq(InputTokensOf(NeedsReviewUnits(plan.files))))
    /\ [][ ( /\ Len(plan'.files) = Len(plan.files) + 1
             /\ LastUnit(plan').status = "skipped" )
           => /\ plan'.input_tokens = plan.input_tokens
              /\ plan'.estimated_output_tokens = plan.estimated_output_tokens ]_vars

\* a reviewable file, a too large one and a second reviewable one have been added
C12_Witness ==
    /\ Len(plan.files) = 3
    /\ plan.files[1].status = "needs_review"
    /\ plan.files[2].status = "skipped"
    /\ plan.files[2].skipped_reason = "file too large"
    /\ plan.files[3].status = "needs_review"
    /\ plan.input_tokens = plan.files[1].input_tokens + plan.files[3].input_tokens
    /\ plan.input_tokens = MAX_TOKENS_PER_REVIEW

(***************************************************************************)
(* C16: a needs_review unit that would take the running sum over the       *)
(* budget closes the current chunk and opens a new one that holds it, the  *)
(* running sum restarting at its input_tokens: the chunks are those of the *)
(* greedy in-order packing. Two files of 15000 tokens give [A] and [B].    *)
(* Violated: the unit that closes a chunk is put into no chunk, and the    *)
(* running sum restarts at 0.                                              *)
(***************************************************************************)
RECURSIVE GreedyChunks(_, _, _, _, _)
GreedyChunks(files, i, chunks, current_chunk, running_sum) ==
    IF i > Len(files)
    THEN IF current_chunk # <<>> THEN Append(chunks, current_chunk) ELSE chunks
    ELSE IF files[i].status = "skipped"
    THEN GreedyChunks(files, i + 1, chunks, current_chunk, running_sum)
    ELSE IF running_sum + files[i].input_tokens > MAX_TOKENS_PER_REVIEW
    THEN GreedyChunks(files, i + 1,
                      IF current_chunk # <<>> THEN Append(chunks, current_chunk)
                      ELSE chunks,
                      <<files[i].message>>, files[i].input_tokens)
    ELSE GreedyChunks(files, i + 1, chunks, Append(current_chunk, files[i].message),
                      running_sum + files[i].input_tokens)

AllWithinBudget(files) ==
    \A i \in 1 .. Len(files) :
        IsNeedsReview(files[i]) => files[i].input_tokens <= MAX_TOKENS_PER_REVIEW

C16_OverflowingUnitOpensNewChunk ==
    (ChunksBuilt /\ AllWithinBudget(plan.files))
        => review_chunks = GreedyChunks(plan.files, 1, <<>>, <<>>, 0)

(***************************************************************************)
(* C18: a needs_review unit whose input_tokens alone exceed the budget is  *)
(* emitted as a chunk of exactly that unit.                                *)
(* Violated: such a unit closes the current chunk, even an empty one, and  *)
(* is put into no chunk.                                                   *)
(***************************************************************************)
C18_OversizedUnitIsItsOwnChunk ==
    ChunksBuilt
        => \A i \in 1 .. Len(plan.files) :
              ( /\ IsNeedsReview(plan.files[i])
                /\ plan.files[i].input_tokens > MAX_TOKENS_PER_REVIEW )
                  => \E c \in 1 .. Len(review_chunks) :
                        review_chunks[c] = <<plan.files[i].message>>

(***************************************************************************)
(* C19: every unit with status skipped has an empty message.               *)
(* Violated: a unit skipped as too large keeps the message rendered for    *)
(* it.                                                                     *)
(***************************************************************************)
C19_SkippedUnitHasEmptyMessage ==
    \A i \in 1 .. Len(plan.files) :
        plan.files[i].status = "skipped" => plan.files[i].message = <<>>

(***************************************************************************)
(* C20: the unit of a file the diff source marked unreviewable carries the *)
(* reason the diff source gave for it.                                     *)
(* Violated: diff_by_file logs the reason and yields only a None diff; the *)
(* planner writes "binary or generated file" for every such file.          *)
(***************************************************************************)
C20_SkipReasonIsTheSuppliedReason ==
    (pc = "plan_loop" /\ cur # NoFile /\ cur.reason # "")
        => /\ plan.files[cur.file_path].status = "skipped"
           /\ plan.files[cur.file_path].skipped_reason = cur.reason

(***************************************************************************)
(* C13: when the configured model is not in the cost table the run ends    *)
(* with an exception before any backend call: no assistant is created, no  *)
(* job is created, no status is fetched, and the confirmation is never     *)
(* reached.                                                                *)
(***************************************************************************)
BackendCalled ==
    \/ cfg'.assistant_id # cfg.assistant_id
    \/ threads' # threads
    \/ attempts' # attempts
    \/ chunk_log' # chunk_log
    \/ exc' = "APIConnectionError"

BeforeTheCostIsKnown == {"plan_loop", "plan_body", "cost", "raised"}

C13_UnknownModelAbortsBeforeBackend ==
    [][ cfg.model_name \notin MODEL_COSTS
          => /\ ~BackendCalled
             /\ pc' \in BeforeTheCostIsKnown ]_vars

\* llm.cost has refused a model that has an encoding but no price, after a
\* plan with a file to review was built
C13_Witness ==
    /\ cfg.model_name \notin MODEL_COSTS
    /\ pc = "raised"
    /\ exc = "ValueError"
    /\ NeedsReviewUnits(plan.files) # <<>>
    /\ threads = <<>>
    /\ ~reported

(***************************************************************************)
(* C14: whenever a job has been submitted, the plan's estimated cost was   *)
(* reported before, and --yes was given or the user confirmed.             *)
(***************************************************************************)
C14_NoJobBeforeReportAndConsent ==
    (threads # <<>> \/ pc \in {"submit", "poll"})
        => /\ reported
           /\ yes \/ confirmed = "y"

\* a job was submitted without --yes, after the user was asked and said yes
C14_Witness ==
    /\ threads # <<>>
    /\ pc = "poll"
    /\ ~yes
    /\ confirmed = "y"
    /\ reported

(***************************************************************************)
(* C15: in the saved page a file skipped at planning time, a file that was *)
(* submitted but got no results, and a file reviewed with results have     *)
(* three different statuses.                                               *)
(* Violated: new_page gives "skipped" to every file without comments,      *)
(* whether it was skipped by the plan or its job failed or timed out.      *)
(***************************************************************************)
WasSubmitted(unit) ==
    /\ IsNeedsReview(unit)
    /\ \E t \in 1 .. Len(threads) :
          \E m \in 1 .. Len(threads[t]) : threads[t][m] = unit.message

ReportCategory(unit) ==
    IF unit.status = "skipped" THEN "skipped at planning time"
    ELSE IF ~WasSubmitted(unit) THEN "never submitted"
    ELSE IF CommentsOf(unit.file_path, results) = <<>> THEN "submitted, no results"
    ELSE "reviewed with results"

StatusInPage(file_path) ==
    LET at == CHOOSE i \in 1 .. Len(page) : page[i].file_path = file_path
    IN  page[at].status

C15_ReportTellsSkippedFromFailed ==
    pc = "page_saved"
        => \A i, j \in 1 .. Len(plan.files) :
              ( /\ ReportCategory(plan.files[i]) # "never submitted"
                /\ ReportCategory(plan.files[j]) # "never submitted"
                /\ ReportCategory(plan.files[i]) # ReportCategory(plan.files[j]) )
                  => StatusInPage(i) # StatusInPage(j)

(***************************************************************************)
(* C17: a job's status is fetched at most 24 times; after 24 fetches that  *)
(* all gave queued or in_progress the job is reported as timed out, with   *)
(* no run returned; and execute_code_review ends only after it processed   *)
(* every chunk, whatever the backend does.                                 *)
(* Violated in its last part: when a backend call raises (C3)              *)
(* execute_code_review ends with chunks left unprocessed.                  *)
(***************************************************************************)
FetchesBounded == attempts <= 24

ExhaustedPollingTimesOut ==
    (pc = "poll" /\ attempts = 24)
        => /\ chunk_result' = NoRun
           /\ chunk_log' = Append(chunk_log, [outcome |-> "timed_out", results |-> <<>>])
           /\ results' = results
           /\ idx' = idx + 1

ExecuteEnded ==
    \/ pc \in {"done", "page_saved"}
    \/ pc = "raised" /\ exc = "APIConnectionError"

EveryChunkProcessed ==
    /\ idx = Len(review_chunks)
    /\ Len(chunk_log) = Len(review_chunks)

C17_BoundedPollingProcessesEveryChunk ==
    /\ []FetchesBounded
    /\ [][ExhaustedPollingTimesOut]_vars
    /\ [](ExecuteEnded => EveryChunkProcessed)

(***************************************************************************)
(* C21: no message of a unit with status skipped is in any chunk, nor in   *)
(* the message list of any job sent to the backend.                        *)
(***************************************************************************)
IsIn(msg, msgs) == \E k \in 1 .. Len(msgs) : msgs[k] = msg

C21_SkippedUnitIsNeverSent ==
    \A i \in 1 .. Len(plan.files) :
        plan.files[i].status = "skipped"
            => /\ \A c \in 1 .. Len(review_chunks) :
                     ~IsIn(plan.files[i].message, review_chunks[c])
               /\ \A t \in 1 .. Len(threads) :
                     ~IsIn(plan.files[i].message, threads[t])

\* a job was sent for a plan that holds a skipped unit with a rendered message
\* and one without
C21_Witness ==
    /\ threads # <<>>
    /\ \E i, j \in 1 .. Len(plan.files) :
          /\ plan.files[i].status = "skipped"
          /\ plan.files[i].message # <<>>
          /\ plan.files[j].status = "skipped"
          /\ plan.files[j].message = <<>>

(***************************************************************************)
(* C22: a job that ended as failed, that timed out, or whose run carries   *)
(* no required action adds nothing to the results, whatever else the run   *)
(* holds: the result list of its chunk is empty.                           *)
(***************************************************************************)
EndedWithoutPayload(entry, returned) ==
    \/ entry.outcome \in {"failed", "timed_out"}
    \/ ~returned.required_action.present

C22_FailedJobGivesNoResults ==
    [][ Len(chunk_log') = Len(chunk_log) + 1
          => ( EndedWithoutPayload(chunk_log'[Len(chunk_log')], chunk_result')
                 => /\ results' = results
                    /\ chunk_log'[Len(chunk_log')].results = <<>> ) ]_vars

\* after a job that timed out, a job ended as failed with tool calls on its run
C22_Witness ==
    /\ Len(chunk_log) = 2
    /\ chunk_log[1].outcome = "timed_out"
    /\ chunk_log[2].outcome = "failed"
    /\ chunk_result.status = "failed"
    /\ chunk_result.required_action.present
    /\ results = <<>>

(***************************************************************************)
(* C23: the t-th job created is the job of the t-th chunk and there is no  *)
(* other: no chunk gets a second job after a failure or a timeout, and     *)
(* when execute_code_review returns every chunk got one. The messages of   *)
(* a job are the review-thread instructions, then the messages of the      *)
(* chunk's units in chunk order.                                           *)
(***************************************************************************)
JobsCreatedFor(n) == Len(threads) = n

C23_OneJobPerChunkInstructionsFirst ==
    /\ pc \in {"submit", "poll", "done", "page_saved"}
          => JobsCreatedFor(idx + IF pc = "poll" THEN 1 ELSE 0)
    /\ pc \in {"done", "page_saved"} => JobsCreatedFor(Len(review_chunks))
    /\ \A t \in 1 .. Len(threads) :
          /\ t <= Len(review_chunks)
          /\ Len(threads[t]) = 1 + Len(review_chunks[t])
          /\ threads[t][1] = REVIEW_THREAD_INSTRUCTIONS
          /\ \A k \in 1 .. Len(review_chunks[t]) :
                threads[t][k + 1] = review_chunks[t][k]

\* two chunks were processed, the first of two units and its job timed out
C23_Witness ==
    /\ pc = "done"
    /\ Len(review_chunks) = 2
    /\ Len(review_chunks[1]) = 2
    /\ Len(threads) = 2
    /\ chunk_log[1].outcome = "timed_out"
    /\ chunk_log[2].outcome = "failed"

(***************************************************************************)
(* C24: an assistant id held by the configuration is never replaced, so an *)
(* assistant is created at most once in a run and never when one is        *)
(* configured; every job is created with the id the configuration holds    *)
(* after the call, which is the id it held before unless it held none.     *)
(***************************************************************************)
AssistantCreated == cfg'.assistant_id # cfg.assistant_id

JobCreated == Len(threads') = Len(threads) + 1

C24_AssistantCreatedOnceAndReused ==
    /\ [][ AssistantCreated => cfg.assistant_id = "" /\ cfg'.assistant_id # "" ]_vars
    /\ [][ JobCreated
             => /\ job_assistant' = cfg'.assistant_id
                /\ job_assistant' # ""
                /\ cfg.assistant_id # "" => job_assistant' = cfg.assistant_id ]_vars

\* the second job of a run was created with the assistant the first job's call
\* created and saved
C24_Witness ==
    /\ Len(threads) = 2
    /\ pc = "poll"
    /\ cfg.assistant_id = "asst_new"
    /\ job_assistant = "asst_new"

(***************************************************************************)
(* C25: in the text annotated_file_contents returns, line n (from 1)       *)
(* starts with the changed marker exactly when n lies in one of the given  *)
(* ranges, both ends included; every line of the text has its line. For    *)
(* three lines and the range (2, 2) line 2 alone is marked.                *)
(***************************************************************************)
IsMarked(n) == annotated[n][1] = "*"

InSomeRange(n, ranges) ==
    \E r \in 1 .. Len(ranges) : n \in ranges[r][1] .. ranges[r][2]

C25_MarkedIffInSomeRangeInclusive ==
    pc = "annotated"
        => /\ Len(annotated) = Len(splitlines(content, <<>>, <<>>))
           /\ \A n \in 1 .. Len(annotated) :
                 /\ annotated[n][1] \in {"*", " "}
                 /\ IsMarked(n) <=> InSomeRange(n, changed_line_ranges)

\* the text "a\na\na" with the range (2, 2): line 2 marked, lines 1 and 3 not
C25_Witness ==
    /\ pc = "annotated"
    /\ content = <<"a", "\n", "a", "\n", "a">>
    /\ changed_line_ranges = <<<<2, 2>>>>
    /\ annotated = << <<" ", " ", " ", " ", " ", "1", " ", "a">>,
                      <<"*", " ", " ", " ", " ", "2", " ", "a">>,
                      <<" ", " ", " ", " ", " ", "3", " ", "a">> >>

(***************************************************************************)
(* C26: for a patch whose hunks all have a target length n >= 1, a hunk of *)
(* target start s gives the range (s, s + n - 1), and the lines marked in  *)
(* the annotated text are exactly the lines the hunks cover.               *)
(* Violated: the range is (s, s + n) and the line after the hunk's last    *)
(* target line is marked as well.                                          *)
(***************************************************************************)
CoveredByHunk(n, hunks) ==
    \E h \in 1 .. Len(hunks) :
        /\ hunks[h].target_start <= n
        /\ n <= hunks[h].target_start + hunks[h].target_length - 1

C26_HunkRangesEndAtLastTargetLine ==
    (pc = "annotated" /\ \A h \in 1 .. Len(patch_hunks) : patch_hunks[h].target_length >= 1)
        => /\ \A h \in 1 .. Len(patch_hunks) :
                 changed_line_ranges[h] =
                     <<patch_hunks[h].target_start,
                       patch_hunks[h].target_start + patch_hunks[h].target_length - 1>>
           /\ \A n \in 1 .. Len(annotated) : IsMarked(n) <=> CoveredByHunk(n, patch_hunks)

====
